---- MODULE Spec2Model ----
(***************************************************************************)
(* Flesh Wounds: the combatant rules (combatants.rs), the Meter            *)
(* (meters.rs) and the Battle roster commands (main.rs).                   *)
(*                                                                         *)
(* Spec is the roster driven by commands.  SpecFn applies the pure         *)
(* functions (Meter, Status::stun_lock, Combatant::update / get_init / xp) *)
(* to arguments drawn from bounded sets: `call` holds the function and its *)
(* arguments, `ret` what it returns.  In Spec `ret` is the value get_xp    *)
(* returned to the last command.                                           *)
(*                                                                         *)
(* One action is one Normal-mode command of Battle::update, taken with the *)
(* messages it asks for already collected: the command body, then          *)
(* messages.clear() and mode = Normal.  The Result of update is `result`;  *)
(* a Rust panic (index out of bounds, unwrap on None) ends the program and *)
(* is the result "panic", after which no command runs.                     *)
(*                                                                         *)
(* SpecUi is Battle::update key by key: `mode`, `input`, `requests` and    *)
(* `messages` are the Battle's fields, one action is one key event, in     *)
(* Insert mode or in Normal mode, and a command asks for the messages it   *)
(* misses.  Spec and SpecFn leave these four fields as Battle::new made    *)
(* them.                                                                   *)
(***************************************************************************)
EXTENDS Integers, Sequences, FiniteSets, TLC

VARIABLES combatants, sel, pos, round, cmd, result, steps, call, ret,
          mode, messages, input, requests

vars == <<combatants, sel, pos, round, cmd, result, steps, call, ret,
          mode, messages, input, requests>>

(* ------------------------------ bounds --------------------------------- *)
MaxSteps == 6
MaxRows == 3
\* the arguments of the pure functions
MaxAtt == 3
MaxRound == 2
MaxBase == 3
MaxDam == 10
MaxHp == 10
MaxVal == 3
\* the length of a text given to the Meter parser
MaxLen == 5
\* the levels / hit dice and the number of classes of a descriptor
MaxLvl == 15
MaxMulti == 2
\* the key events of a session and the characters of one input line
MaxKeys == 9
MaxInput == 3

Dams == {1, 9, 20}
AttackDams == {-1, 9, 20}
Heals == {5}
Names == {"a"}
Teams == {1}
\* the counters and the team bonus given to xp
XpDealts == {-1, 0, 1, 100}
XpRecvds == {-1, 0, 1, 50}
XpBonuses == {-7, 0, 20}
\* the characters of a text given to the Meter parser
Chars == {"1", "2", "/", "x"}
\* one class of each THAC0 table
ClassNames == {"Cleric", "Fighter", "Mage", "Thief"}
Inits == {15}
Hds == {2}
\* the characters the operator types: a digit, the slash of a Meter, the
\* short name of the fighter class
Typed == {"1", "/", "f"}

(* ------------------------------ Option --------------------------------- *)
None == << >>
Some(x) == <<x>>
IsSome(o) == o # << >>
Unwrap(o) == o[1]

Min(a, b) == IF a <= b THEN a ELSE b

(* ------------------------------ Meter ---------------------------------- *)
Meter(c, m) == [curr |-> c, max |-> m]

RECURSIVE split(_)
\* s.split("/"): the fields between the slashes, the empty ones included;
\* a text without a slash is one field
split(s) ==
    IF s = << >> THEN << << >> >>
    ELSE LET rest == split(Tail(s))
         IN  IF Head(s) = "/" THEN << << >> >> \o rest
             ELSE << <<Head(s)>> \o rest[1] >> \o Tail(rest)

Digit(ch) == IF ch = "1" THEN 1 ELSE 2

RECURSIVE Decimal(_)
\* the value of a sequence of digits
Decimal(f) ==
    IF f = << >> THEN 0 ELSE Decimal(SubSeq(f, 1, Len(f) - 1)) * 10 + Digit(f[Len(f)])

\* str::parse::<T>: an integer from a non-empty field of digits, an error
\* (ParseIntError) from every other field
parse(f) ==
    IF f # << >> /\ \A i \in 1..Len(f) : f[i] \in {"1", "2"}
    THEN [ok |-> TRUE, val |-> Decimal(f)]
    ELSE [ok |-> FALSE, val |-> 0]

\* FromStr for Meter: terms[0] and terms[1] are parsed, each `?` returns
\* the ParseIntError; terms[1] on a single field is an index out of bounds
from_str(s) ==
    LET terms == split(s)
        curr_t == parse(terms[1])
    IN  IF ~curr_t.ok THEN [tag |-> "Err", val |-> None]
        ELSE IF Len(terms) < 2 THEN [tag |-> "panic", val |-> None]
        ELSE LET max_t == parse(terms[2])
             IN  IF ~max_t.ok THEN [tag |-> "Err", val |-> None]
                 ELSE [tag |-> "Ok", val |-> Some(Meter(curr_t.val, max_t.val))]

\* AddAssign without the cap
MeterAdd_uncapped(m, rhs) == [m EXCEPT !.curr = m.curr + rhs]

\* AddAssign: self.0 = self.1.min(self.0 + rhs)
MeterAdd(m, rhs) == [m EXCEPT !.curr = Min(m.max, m.curr + rhs)]

\* SubAssign: self.0 -= rhs (no floor)
MeterSub(m, rhs) == [m EXCEPT !.curr = m.curr - rhs]

(* ------------------------------ Status --------------------------------- *)
\* enum Status { Healthy, Stunned(u32), Dead } with the derived Ord:
\* by variant first, then by the Stunned payload.
Healthy == [tag |-> 0, n |-> 0]
Stunned(x) == [tag |-> 1, n |-> x]
Dead == [tag |-> 2, n |-> 0]

IsStunned(s) == s.tag = 1

StatusGt(a, b) == a.tag > b.tag \/ (a.tag = b.tag /\ a.n > b.n)

\* stun_lock with a hit of the whole hp or more killing
stun_lock_kills(dam, hp) ==
    IF dam >= hp THEN Dead
    ELSE IF dam * 7 >= hp * 6 THEN Stunned(8)
    ELSE IF dam * 6 >= hp * 5 THEN Stunned(7)
    ELSE IF dam * 5 >= hp * 4 THEN Stunned(6)
    ELSE IF dam * 4 >= hp * 3 THEN Stunned(5)
    ELSE IF dam * 3 >= hp * 2 THEN Stunned(4)
    ELSE IF dam * 2 >= hp THEN Stunned(3)
    ELSE IF dam * 3 >= hp THEN Stunned(2)
    ELSE IF dam * 4 >= hp THEN Stunned(1)
    ELSE Healthy

\* stun_lock with the two lowest checks in the other order
stun_lock_low_swapped(dam, hp) ==
    IF dam * 7 >= hp * 6 THEN Stunned(8)
    ELSE IF dam * 6 >= hp * 5 THEN Stunned(7)
    ELSE IF dam * 5 >= hp * 4 THEN Stunned(6)
    ELSE IF dam * 4 >= hp * 3 THEN Stunned(5)
    ELSE IF dam * 3 >= hp * 2 THEN Stunned(4)
    ELSE IF dam * 2 >= hp THEN Stunned(3)
    ELSE IF dam * 4 >= hp THEN Stunned(1)
    ELSE IF dam * 3 >= hp THEN Stunned(2)
    ELSE Healthy

\* stun_lock with the ladder entered at the half-of-hp check
stun_lock_from_half(dam, hp) ==
    IF dam * 2 >= hp THEN Stunned(3)
    ELSE IF dam * 3 >= hp THEN Stunned(2)
    ELSE IF dam * 4 >= hp THEN Stunned(1)
    ELSE Healthy

stun_lock(dam, hp) ==
    IF dam * 7 >= hp * 6 THEN Stunned(8)
    ELSE IF dam * 6 >= hp * 5 THEN Stunned(7)
    ELSE IF dam * 5 >= hp * 4 THEN Stunned(6)
    ELSE IF dam * 4 >= hp * 3 THEN Stunned(5)
    ELSE IF dam * 3 >= hp * 2 THEN Stunned(4)
    ELSE IF dam * 2 >= hp THEN Stunned(3)
    ELSE IF dam * 3 >= hp THEN Stunned(2)
    ELSE IF dam * 4 >= hp THEN Stunned(1)
    ELSE Healthy

(* ------------------------------ Classes -------------------------------- *)
CLERIC_THAC0 == <<20, 20, 19, 18, 18, 17, 16, 16, 15, 14, 14, 13, 12>>
FIGHTER_THAC0 == <<20, 19, 18, 17, 16, 15, 14, 13, 12, 11, 10, 9, 8>>
MAGE_THAC0 == <<21, 21, 21, 20, 20, 19, 19, 19, 18, 18, 17, 17, 17>>
THIEF_THAC0 == <<21, 21, 20, 20, 19, 19, 18, 18, 17, 17, 16, 16, 15>>

\* Classes::Single / Multi carry `name` (one class, or a Vec) and `lvl`;
\* Monster carries `magical` and `hd` (kept in lvl).  `name` is a sequence.
Single(c, l) == [kind |-> "Single", name |-> <<c>>, lvl |-> l, magical |-> FALSE]
Multi(v, l) == [kind |-> "Multi", name |-> v, lvl |-> l, magical |-> FALSE]
Monster(m, h) == [kind |-> "Monster", name |-> << >>, lvl |-> h, magical |-> m]

\* Classes::lvl: the same variant with the given level / hit dice
lvl(cl, l) == [cl EXCEPT !.lvl = l]

\* thac0_idx with the last entry never reached
thac0_idx_short(l) == IF l <= 1 THEN 1 ELSE Min(l - 1, Len(FIGHTER_THAC0) - 2) + 1

\* the 0-based index of the code, plus one (TLA+ sequences start at 1)
thac0_idx(l) == IF l <= 1 THEN 1 ELSE Min(l - 1, Len(FIGHTER_THAC0) - 1) + 1

class_table(c) ==
    IF c \in {"Cleric", "Druid", "Monk"} THEN CLERIC_THAC0
    ELSE IF c \in {"Fighter", "Paladin", "Ranger"} THEN FIGHTER_THAC0
    ELSE IF c \in {"Mage", "Illusionist"} THEN MAGE_THAC0
    ELSE THIEF_THAC0

RECURSIVE SeqMin(_, _)
SeqMin(s, dflt) ==
    IF s = << >> THEN dflt
    ELSE IF Len(s) = 1 THEN s[1]
    ELSE Min(s[1], SeqMin(Tail(s), dflt))

\* thac0 with a Multi rated by its first class
thac0_multi_first(cl) ==
    IF cl.kind = "Multi"
    THEN IF cl.name = << >> THEN 20 ELSE class_table(cl.name[1])[thac0_idx(cl.lvl)]
    ELSE IF cl.kind = "Single"
    THEN class_table(cl.name[1])[thac0_idx(cl.lvl)]
    ELSE FIGHTER_THAC0[thac0_idx(cl.lvl)]

thac0(cl) ==
    IF cl.kind = "Multi"
    THEN SeqMin([i \in 1..Len(cl.name) |-> class_table(cl.name[i])[thac0_idx(cl.lvl)]], 20)
    ELSE IF cl.kind = "Single"
    THEN class_table(cl.name[1])[thac0_idx(cl.lvl)]
    ELSE FIGHTER_THAC0[thac0_idx(cl.lvl)]

(* ------------------------------ Combatant ------------------------------ *)
LVLD_DEAD == -10
UNLVLD_DEAD == -4
INIT_MOD == 12

\* Combatant::new; `uid` is the identity of the row object (not a field of
\* the program: two rows may carry the same name).
new(uid, name, hp, attacks, classes, ac) ==
    [done |-> TRUE, uid |-> uid, name |-> name, team |-> None, init |-> None,
     hp |-> hp, status |-> Healthy, ac |-> ac, thac0 |-> thac0(classes),
     attacks |-> attacks, class |-> classes, dealt |-> 0, recvd |-> 0,
     round |-> 1]

\* update with the status reset applied to every status that is not Healthy
update_revives(c) ==
    [c EXCEPT !.round = @ + 1,
              !.status = Healthy,
              !.attacks = MeterAdd(@, c.attacks.max)]

\* update with one attack given back
update_refill_one(c) ==
    [c EXCEPT !.round = @ + 1,
              !.status = IF IsStunned(@) THEN Healthy ELSE @,
              !.attacks = MeterAdd(@, 1)]

update(c) ==
    [c EXCEPT !.round = @ + 1,
              !.status = IF IsStunned(@) THEN Healthy ELSE @,
              !.attacks = MeterAdd(@, c.attacks.max)]

\* get_init with the base kept for a Dead combatant
get_init_dead_keeps_base(c) ==
    IF IsSome(c.init)
    THEN Some(IF c.status = Healthy THEN Unwrap(c.init) + INIT_MOD * 2
              ELSE IF IsStunned(c.status) THEN Unwrap(c.init) + INIT_MOD - c.status.n
              ELSE Unwrap(c.init))
    ELSE None

get_init(c) ==
    IF IsSome(c.init)
    THEN Some(IF c.status = Healthy THEN Unwrap(c.init) + INIT_MOD * 2
              ELSE IF IsStunned(c.status) THEN Unwrap(c.init) + INIT_MOD - c.status.n
              ELSE 0)
    ELSE None

\* dead with the leveled floor for every class
dead_one_floor(c) == LVLD_DEAD

dead(c) == IF c.class.kind = "Monster" THEN UNLVLD_DEAD ELSE LVLD_DEAD

\* in_combat with either of the two set
in_combat_either(c) == IsSome(c.init) \/ IsSome(c.team)

in_combat(c) == IsSome(c.init) /\ IsSome(c.team)

\* can_attack with the comparison against 0
can_attack_any(c) == c.attacks.curr >= 0

can_attack(c) == c.attacks.curr >= 1

deal_hit(c, dam) ==
    [c EXCEPT !.dealt = @ + dam, !.attacks = MeterSub(@, 1)]

\* recv_status with the new stun adopted without the comparison
recv_status_adopts(c, dam) ==
    IF c.status # Dead /\ c.hp.curr - dam <= dead(c) THEN Dead
    ELSE IF c.status # Dead THEN stun_lock(dam, c.hp.curr)
    ELSE c.status

\* the status arm of recv_hit
recv_status(c, dam) ==
    IF c.status # Dead /\ c.hp.curr - dam <= dead(c) THEN Dead
    ELSE IF c.status # Dead
    THEN LET new_ == stun_lock(dam, c.hp.curr)
         IN  IF StatusGt(new_, c.status) THEN new_ ELSE c.status
    ELSE c.status

\* recv_attacks with every stun of the hit consuming attacks, adopted or not
recv_attacks_every_stun(c, dam) ==
    IF c.status # Dead /\ ~(c.hp.curr - dam <= dead(c))
    THEN LET new_ == stun_lock(dam, c.hp.curr)
         IN  IF IsStunned(new_)
             THEN MeterSub(c.attacks, Min(new_.n, c.attacks.curr))
             ELSE c.attacks
    ELSE c.attacks

\* recv_attacks with the whole stun taken off the attacks
recv_attacks_unclamped(c, dam) ==
    IF c.status # Dead /\ ~(c.hp.curr - dam <= dead(c))
    THEN LET new_ == stun_lock(dam, c.hp.curr)
         IN  IF StatusGt(new_, c.status) /\ IsStunned(new_)
             THEN MeterSub(c.attacks, new_.n)
             ELSE c.attacks
    ELSE c.attacks

\* the attacks consumed inside the second arm of recv_hit
recv_attacks(c, dam) ==
    IF c.status # Dead /\ ~(c.hp.curr - dam <= dead(c))
    THEN LET new_ == stun_lock(dam, c.hp.curr)
         IN  IF StatusGt(new_, c.status) /\ IsStunned(new_)
             THEN MeterSub(c.attacks, Min(new_.n, c.attacks.curr))
             ELSE c.attacks
    ELSE c.attacks

\* recv_hit with the hp not taken from a combatant that is Dead already
recv_hit_spares_dead(c, dam) ==
    [c EXCEPT !.recvd = @ + dam,
              !.status = recv_status(c, dam),
              !.attacks = recv_attacks(c, dam),
              !.hp = IF c.status = Dead THEN @ ELSE MeterSub(@, dam)]

recv_hit(c, dam) ==
    [c EXCEPT !.recvd = @ + dam,
              !.status = recv_status(c, dam),
              !.attacks = recv_attacks(c, dam),
              !.hp = MeterSub(@, dam)]

heal(c, dam) == [c EXCEPT !.hp = MeterAdd(@, dam)]

\* i32 `/`: the quotient truncated toward zero
TruncDiv(a, b) == IF a >= 0 THEN a \div b ELSE -((-a) \div b)

\* the condition of the bonus factor in xp: the literal `false`
xp_bonus == FALSE

\* xp with the two weights exchanged
xp_swapped(c, team_bonus) == c.dealt * 20 + c.recvd * 10 + team_bonus

\* (... as f64 * if false { 1.1 } else { 1.0 }) as i32: the sum is an
\* integer, the factor taken is 1.0, and the cast back truncates
xp(c, team_bonus) ==
    LET base == c.dealt * 10 + c.recvd * 20 + team_bonus
    IN  IF xp_bonus THEN TruncDiv(base * 11, 10) ELSE base

\* Combatant::team_xp: the contribution of one combatant to its team's
\* pool, twenty times the damage it dealt
team_xp(c) == c.dealt * 20

(* ------------------------------ rows ----------------------------------- *)
\* BattleRow::Building(CombatantBuilder): the name and the optional slots
\* the set_row! setters fill.
Building(uid, name) ==
    [done |-> FALSE, uid |-> uid, name |-> name, class |-> None, hd |-> None,
     hp |-> None, attacks |-> None, ac |-> None, team |-> None, init |-> None]

\* Combatant::team / Combatant::init
with_team(c, team) == [c EXCEPT !.team = team]
with_init(c, init) == [c EXCEPT !.init = init]

(* ------------------------------ save files ----------------------------- *)
\* load_combat reads (round, rows) from a file the operator names.  The
\* files offered here hold freshly created combatants: a fighter and a
\* monster that are in combat, and a mage that has no team or initiative.
FileF == with_init(with_team(
    new(1, "a", Meter(12, 12), Meter(2, 2), Single("Fighter", 1), 5), Some(1)), Some(10))
FileG == with_init(with_team(
    new(2, "b", Meter(5, 5), Meter(1, 1), Monster(FALSE, 1), 7), Some(2)), Some(15))
FileU == new(2, "c", Meter(5, 5), Meter(1, 1), Single("Mage", 1), 10)

Files ==
    { [round |-> 1, rows |-> <<FileF, FileG>>],
      [round |-> 1, rows |-> <<FileF, FileU>>] }

AttackMeters == {Meter(0, 1)}
HpMeters == {Meter(5, 5)}
ClassInputs == {Multi(<<"Fighter", "Mage">>, 1)}

(* ------------------------------ Battle --------------------------------- *)
\* The ordering key of Battle::sort is an Option<Option<u32>>: None for a
\* Building row, Some(get_init()) for a Done row.  Its derived order is
\* None < Some(None) < Some(Some(n)), embedded here as -2 < -1 < n.
sort_key(row) ==
    IF row.done
    THEN IF IsSome(get_init(row)) THEN Unwrap(get_init(row)) ELSE -1
    ELSE -2

\* "filter out dead, but keep uninitialized": a row is dropped when it has
\* an initiative and that is not > 0.
sort_keep(row) ==
    IF row.done /\ IsSome(get_init(row)) THEN Unwrap(get_init(row)) > 0 ELSE TRUE

\* insert_desc with a row put before the rows of equal key
RECURSIVE insert_desc_unstable(_, _)
insert_desc_unstable(s, x) ==
    IF s = << >> THEN <<x>>
    ELSE IF sort_key(s[1]) > sort_key(x)
    THEN <<s[1]>> \o insert_desc_unstable(Tail(s), x)
    ELSE <<x>> \o s

\* sort_by(|a, b| b.0.cmp(&a.0)) is a stable sort, fastest first: each row
\* goes behind every row whose key is not smaller.
RECURSIVE insert_desc(_, _)
insert_desc(s, x) ==
    IF s = << >> THEN <<x>>
    ELSE IF sort_key(s[1]) >= sort_key(x) THEN <<s[1]>> \o insert_desc(Tail(s), x)
    ELSE <<x>> \o s

RECURSIVE stable_sort(_)
stable_sort(s) ==
    IF s = << >> THEN << >>
    ELSE insert_desc(stable_sort(SubSeq(s, 1, Len(s) - 1)), s[Len(s)])

\* Battle::sort, the rows it leaves (it also sets pos = 0)
sort(rows) == stable_sort(SelectSeq(rows, sort_keep))

\* the identity given to a row object that is pushed
FreeUid(rows) ==
    CHOOSE u \in 1..(Len(rows) + 1) :
        /\ \A i \in 1..Len(rows) : rows[i].uid # u
        /\ \A v \in 1..(u - 1) : \E i \in 1..Len(rows) : rows[i].uid = v

\* rows are indexed from 0 in the program
Row(i) == combatants[i + 1]
SetRow(rows, i, r) == [rows EXCEPT ![i + 1] = r]

Running == result # "panic" /\ steps < MaxSteps

\* the message types a command can ask for (MsgType)
MsgTypes ==
    {"Abilities", "AC", "Attacks", "Class", "Healing", "HP", "HD", "Init", "Team",
     "Damage", "Name", "SaveFileName", "OpenFileName"}

\* Mode
Normal == <<"Normal">>
Insert(msg) == <<"Insert", msg>>

\* BTreeMap::new(): no message collected
NoMessages == [m \in MsgTypes |-> None]

\* what every command leaves: the command, its Result, and no get_xp value
Ended(c, a, r) ==
    /\ cmd' = <<c, a>>
    /\ result' = r
    /\ steps' = steps + 1
    /\ UNCHANGED <<call, mode, messages, input, requests>>

Ends(c, a, r) == Ended(c, a, r) /\ ret' = None

Init ==
    /\ combatants = << >>
    /\ sel = None
    /\ pos = 0
    /\ round = 1
    /\ cmd = <<"new", 0>>
    /\ result = "ok"
    /\ steps = 0
    /\ call = <<"none">>
    /\ ret = None
    /\ mode = Normal
    /\ messages = NoMessages
    /\ input = << >>
    /\ requests = << >>

\* Ctrl-o: load_combat replaces round and combatants, nothing else
Load ==
    /\ Running
    /\ \E f \in Files :
        /\ round' = f.round
        /\ combatants' = f.rows
    /\ UNCHANGED <<sel, pos>>
    /\ Ends("load", 0, "ok")

\* down with the cursor allowed one past the last row
down_past_end(rows, p) == IF p < Len(rows) THEN p + 1 ELSE p

\* Battle::down
down(rows, p) == IF p + 1 < Len(rows) THEN p + 1 ELSE p

\* Battle::up
up(p) == IF p > 0 THEN p - 1 ELSE p

\* j
Down ==
    /\ Running
    /\ pos' = down(combatants, pos)
    /\ UNCHANGED <<combatants, sel, round>>
    /\ Ends("down", 0, "ok")

\* k
Up ==
    /\ Running
    /\ pos' = up(pos)
    /\ UNCHANGED <<combatants, sel, round>>
    /\ Ends("up", 0, "ok")

\* Return
Select ==
    /\ Running
    /\ sel' = IF sel = Some(pos) THEN None ELSE Some(pos)
    /\ UNCHANGED <<combatants, pos, round>>
    /\ Ends("select", 0, "ok")

\* x: Battle::advance
advance_rows(rows) ==
    LET sorted == sort(rows)
    IN  [i \in 1..Len(sorted) |-> IF sorted[i].done THEN update(sorted[i]) ELSE sorted[i]]

Advance ==
    /\ Running
    /\ round' = round + 1
    /\ combatants' = advance_rows(combatants)
    /\ pos' = 0
    /\ UNCHANGED sel
    /\ Ends("advance", 0, "ok")

\* n: the name, the class and the AC are asked for; the class and the AC
\* are parsed and dropped (`_class`, `_ac`), the builder gets the name only
add_rows(rows, name) == sort(Append(rows, Building(FreeUid(rows), name)))

AddCombatant ==
    /\ Running
    /\ Len(combatants) < MaxRows
    /\ \E name \in Names : combatants' = add_rows(combatants, name)
    /\ pos' = 0
    /\ UNCHANGED <<sel, round>>
    /\ Ends("add", 0, "ok")

\* y: Battle::copy_combatant pushes a clone of the selected row
copy_combatant(rows, s, name) ==
    IF IsSome(s)
    THEN IF Unwrap(s) < Len(rows)
         THEN LET old == rows[Unwrap(s) + 1]
                  new_ == [old EXCEPT !.uid = FreeUid(rows),
                                      !.name = IF IsSome(name) THEN Unwrap(name) ELSE @]
              IN  [rows |-> Append(rows, new_), res |-> "ok"]
         ELSE [rows |-> rows, res |-> "panic"]
    ELSE [rows |-> rows, res |-> "ok"]

Copy ==
    /\ Running
    /\ Len(combatants) < MaxRows
    /\ \E name \in {None} \cup {Some(n) : n \in Names} :
        LET r == copy_combatant(combatants, sel, name)
        IN  /\ combatants' = r.rows
            /\ Ends("copy", 0, r.res)
    /\ UNCHANGED <<sel, pos, round>>

\* damage with a Building row passed over in silence
damage_on_building(rows, s, dam) ==
    IF IsSome(s)
    THEN IF Unwrap(s) < Len(rows)
         THEN IF rows[Unwrap(s) + 1].done
              THEN [rows |-> SetRow(rows, Unwrap(s), recv_hit(rows[Unwrap(s) + 1], dam)),
                    res |-> "ok"]
              ELSE [rows |-> rows, res |-> "ok"]
         ELSE [rows |-> rows, res |-> "panic"]
    ELSE [rows |-> rows, res |-> "ok"]

\* Battle::damage
damage(rows, s, dam) ==
    IF IsSome(s)
    THEN IF Unwrap(s) < Len(rows)
         THEN IF rows[Unwrap(s) + 1].done
              THEN [rows |-> SetRow(rows, Unwrap(s), recv_hit(rows[Unwrap(s) + 1], dam)),
                    res |-> "ok"]
              ELSE [rows |-> rows, res |-> "NotBuilt"]
         ELSE [rows |-> rows, res |-> "panic"]
    ELSE [rows |-> rows, res |-> "ok"]

\* d
Damage ==
    /\ Running
    /\ \E dam \in Dams :
        LET r == damage(combatants, sel, dam)
        IN  /\ combatants' = r.rows
            /\ Ends("damage", dam, r.res)
    /\ UNCHANGED <<sel, pos, round>>

\* Battle::heal
battle_heal(rows, s, dam) ==
    IF IsSome(s)
    THEN IF Unwrap(s) < Len(rows)
         THEN IF rows[Unwrap(s) + 1].done
              THEN [rows |-> SetRow(rows, Unwrap(s), heal(rows[Unwrap(s) + 1], dam)),
                    res |-> "ok"]
              ELSE [rows |-> rows, res |-> "NotBuilt"]
         ELSE [rows |-> rows, res |-> "panic"]
    ELSE [rows |-> rows, res |-> "ok"]

\* h
Heal ==
    /\ Running
    /\ \E dam \in Heals :
        LET r == battle_heal(combatants, sel, dam)
        IN  /\ combatants' = r.rows
            /\ Ends("heal", dam, r.res)
    /\ UNCHANGED <<sel, pos, round>>

\* the test that opens Battle::attack: it reads combatants[f] twice
attack_not_built(rows, f, t) == ~rows[f + 1].done \/ ~rows[f + 1].done

\* the second block of Battle::attack: combatants[t].done_mut().unwrap()
attack_to(rows, t, dam) ==
    IF t < Len(rows) /\ rows[t + 1].done
    THEN [rows |-> SetRow(rows, t, recv_hit(rows[t + 1], dam)), res |-> "ok"]
    ELSE [rows |-> rows, res |-> "panic"]

\* Battle::attack
attack(rows, s, t, dam) ==
    IF IsSome(s)
    THEN LET f == Unwrap(s)
         IN  IF ~(f < Len(rows)) THEN [rows |-> rows, res |-> "panic"]
             ELSE IF attack_not_built(rows, f, t) THEN [rows |-> rows, res |-> "NotBuilt"]
             ELSE IF ~in_combat(rows[f + 1]) THEN [rows |-> rows, res |-> "NotInCombat"]
             ELSE IF ~can_attack(rows[f + 1]) THEN [rows |-> rows, res |-> "NotEnoughAttacks"]
             ELSE attack_to(SetRow(rows, f, deal_hit(rows[f + 1], dam)), t, dam)
    ELSE [rows |-> rows, res |-> "ok"]

\* a
Attack ==
    /\ Running
    /\ \E dam \in AttackDams :
        LET r == attack(combatants, sel, pos, dam)
        IN  /\ combatants' = r.rows
            /\ Ends("attack", dam, r.res)
    /\ UNCHANGED <<sel, pos, round>>

\* set_row with the rating of a Done row computed again from a new class
set_row_rerates(rows, p, field, v) ==
    IF p < Len(rows)
    THEN IF rows[p + 1].done
         THEN SetRow(rows, p,
                     IF field = "class"
                     THEN [rows[p + 1] EXCEPT !.class = v, !.thac0 = thac0(v)]
                     ELSE [rows[p + 1] EXCEPT ![field] = IF field \in {"team", "init"} THEN Some(v) ELSE v])
         ELSE SetRow(rows, p, [rows[p + 1] EXCEPT ![field] = Some(v)])
    ELSE rows

\* set_row!: the row under the cursor; a Building row gets Some(value), a
\* Done row the value (its team and init are Options in Combatant).
set_row(rows, p, field, v) ==
    IF p < Len(rows)
    THEN IF rows[p + 1].done
         THEN SetRow(rows, p,
                     [rows[p + 1] EXCEPT ![field] = IF field \in {"team", "init"} THEN Some(v) ELSE v])
         ELSE SetRow(rows, p, [rows[p + 1] EXCEPT ![field] = Some(v)])
    ELSE rows

\* the hd setter on a Done row: the level / hit dice of the combatant's
\* class descriptor; nothing else of the combatant is recomputed
set_hd_done(c, hd) == [c EXCEPT !.class = lvl(@, hd)]

\* set_row!(hd: u32)
set_hd(rows, p, hd) ==
    IF p < Len(rows)
    THEN IF rows[p + 1].done
         THEN SetRow(rows, p, set_hd_done(rows[p + 1], hd))
         ELSE SetRow(rows, p, [rows[p + 1] EXCEPT !.hd = Some(hd)])
    ELSE rows

\* D
SetHd ==
    /\ Running
    /\ \E hd \in Hds : combatants' = set_hd(combatants, pos, hd)
    /\ UNCHANGED <<sel, pos, round>>
    /\ Ends("hd", 0, "ok")

\* i, asked again with the team collected and the initiative still to
\* collect: self.team(team) has run when the command asks for Init
SetTeam ==
    /\ Running
    /\ \E team \in Teams : combatants' = set_row(combatants, pos, "team", team)
    /\ UNCHANGED <<sel, pos, round>>
    /\ Ends("team", 0, "ok")

\* i, with both collected
SetTeamInit ==
    /\ Running
    /\ \E team \in Teams, init \in Inits :
        combatants' = set_row(set_row(combatants, pos, "team", team), pos, "init", init)
    /\ UNCHANGED <<sel, pos, round>>
    /\ Ends("init", 0, "ok")

\* A
SetAttacks ==
    /\ Running
    /\ \E atts \in AttackMeters : combatants' = set_row(combatants, pos, "attacks", atts)
    /\ UNCHANGED <<sel, pos, round>>
    /\ Ends("attacks", 0, "ok")

\* H
SetHp ==
    /\ Running
    /\ \E hp \in HpMeters : combatants' = set_row(combatants, pos, "hp", hp)
    /\ UNCHANGED <<sel, pos, round>>
    /\ Ends("hp", 0, "ok")

\* C
SetClass ==
    /\ Running
    /\ \E class \in ClassInputs : combatants' = set_row(combatants, pos, "class", class)
    /\ UNCHANGED <<sel, pos, round>>
    /\ Ends("class", 0, "ok")

RECURSIVE team_bonus(_, _, _, _)
\* the fold over the Done rows of the team, from row i on:
\* acc + (x.team_xp() / n)
team_bonus(rows, i, team, n) ==
    IF i > Len(rows) THEN 0
    ELSE (IF rows[i].done /\ rows[i].team = team
          THEN TruncDiv(team_xp(rows[i]), n) ELSE 0)
         + team_bonus(rows, i + 1, team, n)

\* get_xp with the team pool shared among the Done rows only
get_xp_done_share(rows, s) ==
    IF ~IsSome(s) THEN [val |-> None, res |-> "ok"]
    ELSE IF Unwrap(s) >= Len(rows) THEN [val |-> None, res |-> "panic"]
    ELSE IF ~rows[Unwrap(s) + 1].done THEN [val |-> None, res |-> "ok"]
    ELSE LET comb == rows[Unwrap(s) + 1]
             n == Cardinality({i \in 1..Len(rows) : rows[i].done})
         IN  [val |-> Some(xp(comb, team_bonus(rows, 1, comb.team, n))), res |-> "ok"]

\* get_xp: None without a selection or on a Building row; otherwise the
\* selected combatant's xp with the bonus of its team, every member's
\* team_xp divided by the number of rows.  combatants[f] panics out of range.
get_xp(rows, s) ==
    IF ~IsSome(s) THEN [val |-> None, res |-> "ok"]
    ELSE IF Unwrap(s) >= Len(rows) THEN [val |-> None, res |-> "panic"]
    ELSE IF ~rows[Unwrap(s) + 1].done THEN [val |-> None, res |-> "ok"]
    ELSE LET comb == rows[Unwrap(s) + 1]
             n == Len(rows)
         IN  [val |-> Some(xp(comb, team_bonus(rows, 1, comb.team, n))), res |-> "ok"]

\* z: self.get_xp().unwrap(); the value is dropped, unwrap panics on None
GetXp ==
    /\ Running
    /\ LET r == get_xp(combatants, sel)
       IN  IF r.res = "ok" /\ IsSome(r.val)
           THEN Ended("xp", 0, "ok") /\ ret' = r.val
           ELSE Ended("xp", 0, "panic") /\ ret' = None
    /\ UNCHANGED <<combatants, sel, pos, round>>

Next ==
    \/ Load
    \/ Down
    \/ Up
    \/ Select
    \/ Advance
    \/ AddCombatant
    \/ Copy
    \/ Damage
    \/ Heal
    \/ Attack
    \/ SetTeam
    \/ SetTeamInit
    \/ SetAttacks
    \/ SetHp
    \/ SetClass
    \/ SetHd
    \/ GetXp

Spec == Init /\ [][Next]_vars

(* ------------------------- the pure functions -------------------------- *)
\* no function has been applied yet
Idle == call = <<"none">>

\* one application: `c` is the function with its arguments, `r` its result
Apply(c, r) ==
    /\ call' = c
    /\ ret' = r
    /\ UNCHANGED <<combatants, sel, pos, round, cmd, result, steps>>
    /\ UNCHANGED <<mode, messages, input, requests>>

Statuses == {Healthy, Dead} \cup {Stunned(x) : x \in 1..8}

\* a combatant in the given state of attacks, status and round
Fighter(atts, status, rnd) ==
    [new(1, "a", Meter(5, 5), atts, Single("Fighter", 1), 5)
        EXCEPT !.status = status, !.round = rnd]

CallUpdate ==
    /\ Idle
    /\ \E curr \in 0..MaxAtt, max \in 0..MaxAtt, status \in Statuses, rnd \in 1..MaxRound :
            LET c == Fighter(Meter(curr, max), status, rnd)
            IN  Apply(<<"update", c>>, update(c))

CallGetInit ==
    /\ Idle
    /\ \E init \in {None} \cup {Some(b) : b \in 0..MaxBase}, status \in Statuses :
            LET c == with_init(Fighter(Meter(1, 1), status, 1), init)
            IN  Apply(<<"get_init", c>>, get_init(c))

CallStunLock ==
    /\ Idle
    /\ \E dam \in -MaxDam..MaxDam, hp \in -MaxHp..MaxHp :
            Apply(<<"stun_lock", dam, hp>>, stun_lock(dam, hp))

CallXp ==
    /\ Idle
    /\ \E dealt \in XpDealts, recvd \in XpRecvds, bonus \in XpBonuses :
            LET c == [Fighter(Meter(1, 1), Healthy, 1) EXCEPT !.dealt = dealt, !.recvd = recvd]
            IN  Apply(<<"xp", c, bonus>>, xp(c, bonus))

CallMeterAdd ==
    /\ Idle
    /\ \E curr \in -MaxVal..MaxVal, max \in -MaxVal..MaxVal, rhs \in -MaxVal..MaxVal :
            Apply(<<"add", Meter(curr, max), rhs>>, MeterAdd(Meter(curr, max), rhs))

CallFromStr ==
    /\ Idle
    /\ \E k \in 0..MaxLen : \E s \in [1..k -> Chars] :
            Apply(<<"from_str", s>>, from_str(s))

\* the class descriptors: Single, Multi of up to MaxMulti classes, Monster
Descriptors ==
    UNION { {Single(c, l) : c \in ClassNames}
            \cup {Multi(v, l) : v \in UNION {[1..k -> ClassNames] : k \in 0..MaxMulti}}
            \cup {Monster(m, l) : m \in BOOLEAN}
          : l \in 0..MaxLvl }

CallThac0 ==
    /\ Idle
    /\ \E cl \in Descriptors : Apply(<<"thac0", cl>>, thac0(cl))

\* a hit on a fighter or a monster in any status, at any hp and attacks
CallRecvHit ==
    /\ Idle
    /\ \E status \in Statuses, hp \in -MaxHp..MaxHp, atts \in 0..MaxAtt,
          class \in {Single("Fighter", 1), Monster(FALSE, 1)}, dam \in -MaxDam..MaxDam :
            LET c == [with_init(with_team(Fighter(Meter(atts, MaxAtt), status, 1), Some(1)), Some(10))
                        EXCEPT !.hp = Meter(hp, MaxHp), !.class = class]
            IN  Apply(<<"recv_hit", c, dam>>, recv_hit(c, dam))

NextFn ==
    \/ CallUpdate
    \/ CallGetInit
    \/ CallStunLock
    \/ CallXp
    \/ CallMeterAdd
    \/ CallFromStr
    \/ CallThac0
    \/ CallRecvHit

SpecFn == Init /\ [][NextFn]_vars

(* --------------------------- Battle::update ---------------------------- *)
\* One action is one key event.  The autosave that ends update is taken to
\* succeed.  Two arms are not here: the keys Insert mode ignores, which
\* change nothing, and ~, whose Combatant::reset is not in the source.
\* a key event is handled: the program has not panicked
Typing == result # "panic" /\ steps < MaxKeys

\* what a key event leaves: the key's command, the Result of update and
\* the value get_xp returned
Did(k, r, v) ==
    /\ cmd' = <<k, 0>>
    /\ result' = r
    /\ steps' = steps + 1
    /\ ret' = v
    /\ UNCHANGED call

Keyed(k, r) == Did(k, r, None)

\* the roster as it was
RosterKept == UNCHANGED <<combatants, sel, pos, round>>

\* messages.get(&msg)
Has(msg) == IsSome(messages[msg])
Msg(msg) == Unwrap(messages[msg])

\* get_or_req! without the message: mode = Insert(msg); return Ok(())
Asks(k, msg) ==
    /\ mode' = Insert(msg)
    /\ UNCHANGED <<messages, input, requests>>
    /\ Keyed(k, "ok")

\* a `?` that returns the error, or a panic: update is left there, the
\* lines after the match are not reached
Fails(k, err) ==
    /\ UNCHANGED <<mode, messages, input, requests>>
    /\ Keyed(k, err)

\* the lines after the match of a Normal-mode key: messages.clear();
\* mode = Normal
Cleared ==
    /\ messages' = NoMessages
    /\ mode' = Normal
    /\ UNCHANGED <<input, requests>>

Clears(k) == Cleared /\ Keyed(k, "ok")

\* Class::from_str, on the short names of the classes that have a table
class_from_str(f) ==
    IF f = <<"c">> THEN Some("Cleric")
    ELSE IF f = <<"f">> THEN Some("Fighter")
    ELSE IF f = <<"m", "a">> THEN Some("Mage")
    ELSE IF f = <<"t">> THEN Some("Thief")
    ELSE None

\* Classes::from_str: the text from the first digit on is the level if it
\* parses (1 otherwise, with the whole text as the name); "!" and "." are
\* monsters, every other name is split at the slashes into classes
classes_from_str(s) ==
    LET digits == {i \in 1..Len(s) : s[i] \in {"1", "2"}}
        i == IF digits = {} THEN 0 ELSE CHOOSE j \in digits : \A k \in digits : j <= k
        nums == IF i = 0 THEN [ok |-> FALSE, val |-> 0] ELSE parse(SubSeq(s, i, Len(s)))
        name == IF nums.ok THEN SubSeq(s, 1, i - 1) ELSE s
        n == IF nums.ok THEN nums.val ELSE 1
        parts == split(name)
        cs == [k \in 1..Len(parts) |-> class_from_str(parts[k])]
    IN  IF name = <<"!">> THEN [ok |-> TRUE, val |-> Some(Monster(TRUE, n))]
        ELSE IF name = <<".">> THEN [ok |-> TRUE, val |-> Some(Monster(FALSE, n))]
        ELSE IF \E k \in 1..Len(parts) : cs[k] = None THEN [ok |-> FALSE, val |-> None]
        ELSE IF Len(parts) > 1
             THEN [ok |-> TRUE, val |-> Some(Multi([k \in 1..Len(parts) |-> Unwrap(cs[k])], n))]
             ELSE [ok |-> TRUE, val |-> Some(Single(Unwrap(cs[1]), n))]

\* Insert mode, Return: the input becomes the message the mode asked for,
\* and the next request, if there is one, is asked
InsertEnter ==
    /\ Typing
    /\ mode # Normal
    /\ messages' = [messages EXCEPT ![mode[2]] = Some(input)]
    /\ input' = << >>
    /\ IF requests # << >>
       THEN /\ mode' = Insert(requests[Len(requests)])
            /\ requests' = SubSeq(requests, 1, Len(requests) - 1)
       ELSE /\ mode' = Normal
            /\ UNCHANGED requests
    /\ RosterKept
    /\ Keyed("insert_enter", "ok")

\* Insert mode, a character
InsertChar ==
    /\ Typing
    /\ mode # Normal
    /\ Len(input) < MaxInput
    /\ \E c \in Typed : input' = Append(input, c)
    /\ UNCHANGED <<mode, messages, requests>>
    /\ RosterKept
    /\ Keyed("insert_char", "ok")

\* Insert mode, Backspace: input.pop()
InsertBackspace ==
    /\ Typing
    /\ mode # Normal
    /\ input' = IF input = << >> THEN << >> ELSE SubSeq(input, 1, Len(input) - 1)
    /\ UNCHANGED <<mode, messages, requests>>
    /\ RosterKept
    /\ Keyed("insert_backspace", "ok")

\* Insert mode, Ctrl-c: the input and the requests are erased
InsertCancel ==
    /\ Typing
    /\ mode # Normal
    /\ input' = << >>
    /\ requests' = << >>
    /\ mode' = Normal
    /\ UNCHANGED messages
    /\ RosterKept
    /\ Keyed("insert_cancel", "ok")

\* Ctrl-s: save_combat writes the file or returns the io::Error
KeySave ==
    /\ Typing
    /\ mode = Normal
    /\ RosterKept
    /\ IF ~Has("SaveFileName") THEN Asks("save", "SaveFileName")
       ELSE Fails("save", "Io") \/ Clears("save")

\* Ctrl-o: load_combat reads one of the files or returns the io::Error
KeyLoad ==
    /\ Typing
    /\ mode = Normal
    /\ IF ~Has("OpenFileName") THEN Asks("load", "OpenFileName") /\ RosterKept
       ELSE \/ Fails("load", "Io") /\ RosterKept
            \/ \E f \in Files :
                /\ round' = f.round
                /\ combatants' = f.rows
                /\ UNCHANGED <<sel, pos>>
                /\ Clears("load")

\* j
KeyDown ==
    /\ Typing
    /\ mode = Normal
    /\ pos' = down(combatants, pos)
    /\ UNCHANGED <<combatants, sel, round>>
    /\ Clears("down")

\* k
KeyUp ==
    /\ Typing
    /\ mode = Normal
    /\ pos' = up(pos)
    /\ UNCHANGED <<combatants, sel, round>>
    /\ Clears("up")

\* x
KeyAdvance ==
    /\ Typing
    /\ mode = Normal
    /\ round' = round + 1
    /\ combatants' = advance_rows(combatants)
    /\ pos' = 0
    /\ UNCHANGED sel
    /\ Clears("advance")

\* n: the name, then the class, then the AC
KeyAdd ==
    /\ Typing
    /\ mode = Normal
    /\ IF ~Has("Name") THEN Asks("add", "Name") /\ RosterKept
       ELSE IF ~Has("Class") THEN Asks("add", "Class") /\ RosterKept
       ELSE IF ~classes_from_str(Msg("Class")).ok THEN Fails("add", "ParseError") /\ RosterKept
       ELSE IF ~Has("AC") THEN Asks("add", "AC") /\ RosterKept
       ELSE IF ~parse(Msg("AC")).ok THEN Fails("add", "ParseError") /\ RosterKept
       ELSE /\ Len(combatants) < MaxRows
            /\ combatants' = add_rows(combatants, Msg("Name"))
            /\ pos' = 0
            /\ UNCHANGED <<sel, round>>
            /\ Clears("add")

\* i: the team is set before the initiative is asked for
KeyInit ==
    /\ Typing
    /\ mode = Normal
    /\ UNCHANGED <<sel, pos, round>>
    /\ IF ~Has("Team") THEN Asks("init", "Team") /\ UNCHANGED combatants
       ELSE IF ~parse(Msg("Team")).ok THEN Fails("init", "ParseError") /\ UNCHANGED combatants
       ELSE LET teamed == set_row(combatants, pos, "team", parse(Msg("Team")).val)
            IN  IF ~Has("Init") THEN Asks("init", "Init") /\ combatants' = teamed
                ELSE IF ~parse(Msg("Init")).ok
                     THEN Fails("init", "ParseError") /\ combatants' = teamed
                     ELSE /\ combatants' = set_row(teamed, pos, "init", parse(Msg("Init")).val)
                          /\ Clears("init")

\* E: a text that does not parse is no abilities (.ok()); the abilities
\* are no part of the rows here
KeyAbilities ==
    /\ Typing
    /\ mode = Normal
    /\ RosterKept
    /\ IF ~Has("Abilities") THEN Asks("abilities", "Abilities") ELSE Clears("abilities")

\* Return
KeySelect ==
    /\ Typing
    /\ mode = Normal
    /\ sel' = IF sel = Some(pos) THEN None ELSE Some(pos)
    /\ UNCHANGED <<combatants, pos, round>>
    /\ Clears("select")

\* A
KeyAttacks ==
    /\ Typing
    /\ mode = Normal
    /\ UNCHANGED <<sel, pos, round>>
    /\ IF ~Has("Attacks") THEN Asks("attacks", "Attacks") /\ UNCHANGED combatants
       ELSE LET atts == from_str(Msg("Attacks"))
            IN  IF atts.tag = "Err" THEN Fails("attacks", "ParseError") /\ UNCHANGED combatants
                ELSE IF atts.tag = "panic" THEN Fails("attacks", "panic") /\ UNCHANGED combatants
                ELSE /\ combatants' = set_row(combatants, pos, "attacks", Unwrap(atts.val))
                     /\ Clears("attacks")

\* a
KeyAttack ==
    /\ Typing
    /\ mode = Normal
    /\ UNCHANGED <<sel, pos, round>>
    /\ IF ~Has("Damage") THEN Asks("attack", "Damage") /\ UNCHANGED combatants
       ELSE IF ~parse(Msg("Damage")).ok THEN Fails("attack", "ParseError") /\ UNCHANGED combatants
       ELSE LET r == attack(combatants, sel, pos, parse(Msg("Damage")).val)
            IN  /\ combatants' = r.rows
                /\ IF r.res = "ok" THEN Clears("attack") ELSE Fails("attack", r.res)

\* C
KeyClass ==
    /\ Typing
    /\ mode = Normal
    /\ UNCHANGED <<sel, pos, round>>
    /\ IF ~Has("Class") THEN Asks("class", "Class") /\ UNCHANGED combatants
       ELSE LET class == classes_from_str(Msg("Class"))
            IN  IF ~class.ok THEN Fails("class", "ParseError") /\ UNCHANGED combatants
                ELSE /\ combatants' = set_row(combatants, pos, "class", Unwrap(class.val))
                     /\ Clears("class")

\* D
KeyHd ==
    /\ Typing
    /\ mode = Normal
    /\ UNCHANGED <<sel, pos, round>>
    /\ IF ~Has("HD") THEN Asks("hd", "HD") /\ UNCHANGED combatants
       ELSE IF ~parse(Msg("HD")).ok THEN Fails("hd", "ParseError") /\ UNCHANGED combatants
       ELSE /\ combatants' = set_hd(combatants, pos, parse(Msg("HD")).val)
            /\ Clears("hd")

\* d
KeyDamage ==
    /\ Typing
    /\ mode = Normal
    /\ UNCHANGED <<sel, pos, round>>
    /\ IF ~Has("Damage") THEN Asks("damage", "Damage") /\ UNCHANGED combatants
       ELSE IF ~parse(Msg("Damage")).ok THEN Fails("damage", "ParseError") /\ UNCHANGED combatants
       ELSE LET r == damage(combatants, sel, parse(Msg("Damage")).val)
            IN  /\ combatants' = r.rows
                /\ IF r.res = "ok" THEN Clears("damage") ELSE Fails("damage", r.res)

\* H
KeyHp ==
    /\ Typing
    /\ mode = Normal
    /\ UNCHANGED <<sel, pos, round>>
    /\ IF ~Has("HP") THEN Asks("hp", "HP") /\ UNCHANGED combatants
       ELSE LET hp == from_str(Msg("HP"))
            IN  IF hp.tag = "Err" THEN Fails("hp", "ParseError") /\ UNCHANGED combatants
                ELSE IF hp.tag = "panic" THEN Fails("hp", "panic") /\ UNCHANGED combatants
                ELSE /\ combatants' = set_row(combatants, pos, "hp", Unwrap(hp.val))
                     /\ Clears("hp")

\* h
KeyHeal ==
    /\ Typing
    /\ mode = Normal
    /\ UNCHANGED <<sel, pos, round>>
    /\ IF ~Has("Healing") THEN Asks("heal", "Healing") /\ UNCHANGED combatants
       ELSE IF ~parse(Msg("Healing")).ok THEN Fails("heal", "ParseError") /\ UNCHANGED combatants
       ELSE LET r == battle_heal(combatants, sel, parse(Msg("Healing")).val)
            IN  /\ combatants' = r.rows
                /\ IF r.res = "ok" THEN Clears("heal") ELSE Fails("heal", r.res)

\* y: an empty name keeps the name of the row that is copied
KeyCopy ==
    /\ Typing
    /\ mode = Normal
    /\ UNCHANGED <<sel, pos, round>>
    /\ IF ~Has("Name") THEN Asks("copy", "Name") /\ UNCHANGED combatants
       ELSE LET s == Msg("Name")
                r == copy_combatant(combatants, sel, IF s = << >> THEN None ELSE Some(s))
            IN  /\ Len(combatants) < MaxRows
                /\ combatants' = r.rows
                /\ IF r.res = "ok" THEN Clears("copy") ELSE Fails("copy", r.res)

\* z
KeyXp ==
    /\ Typing
    /\ mode = Normal
    /\ RosterKept
    /\ LET r == get_xp(combatants, sel)
       IN  IF r.res = "ok" /\ IsSome(r.val)
           THEN Cleared /\ Did("xp", "ok", r.val)
           ELSE Fails("xp", "panic")

\* a key no arm of the match names
KeyOther ==
    /\ Typing
    /\ mode = Normal
    /\ RosterKept
    /\ Clears("other")

NextUi ==
    \/ InsertEnter
    \/ InsertChar
    \/ InsertBackspace
    \/ InsertCancel
    \/ KeySave
    \/ KeyLoad
    \/ KeyDown
    \/ KeyUp
    \/ KeyAdvance
    \/ KeyAdd
    \/ KeyInit
    \/ KeyAbilities
    \/ KeySelect
    \/ KeyAttacks
    \/ KeyAttack
    \/ KeyClass
    \/ KeyHd
    \/ KeyDamage
    \/ KeyHp
    \/ KeyHeal
    \/ KeyCopy
    \/ KeyXp
    \/ KeyOther

SpecUi == Init /\ [][NextUi]_vars

(* ============================== claims ================================= *)
\* the step just taken ran the command `c`
Ran(c) == cmd'[1] = c

\* The Status order of the specification: Healthy < Stunned(1) < ... <
\* Stunned(8) < Dead.
StatusRank(s) == IF s.tag = 0 THEN 0 ELSE IF s.tag = 1 THEN s.n ELSE 9

RosterUnchanged == UNCHANGED <<combatants, sel, pos, round>>

\* C1: once a combatant is Dead, no command (damage, heal, attack, advance
\* round, add, duplicate, team / initiative / attacks / hp / class setting,
\* cursor and selection moves) leaves the same combatant with another Status.
C1_DeadIsTerminal ==
    [][~Ran("load") =>
        \A i \in 1..Len(combatants) : \A j \in 1..Len(combatants') :
            (/\ combatants[i].done
             /\ combatants[i].status = Dead
             /\ combatants'[j].uid = combatants[i].uid)
            => (combatants'[j].done /\ combatants'[j].status = Dead)]_vars

\* a heal has been applied to a selected combatant that is Dead
C1_Witness ==
    /\ cmd[1] = "heal"
    /\ result = "ok"
    /\ IsSome(sel)
    /\ Unwrap(sel) < Len(combatants)
    /\ Row(Unwrap(sel)).done
    /\ Row(Unwrap(sel)).status = Dead

\* C2: a damage or attack command never lowers the Status of any combatant
\* in the order Healthy < Stunned(1) < ... < Stunned(8) < Dead.
C2_NoDowngrade ==
    [][(Ran("damage") \/ Ran("attack")) =>
        \A i \in 1..Len(combatants) :
            combatants[i].done =>
                StatusRank(combatants'[i].status) >= StatusRank(combatants[i].status)]_vars

\* a combatant that was Stunned(5) at 3 hp has taken a hit of 1, whose
\* stun_lock is Stunned(2), and is still Stunned(5)
C2_Witness ==
    /\ cmd = <<"damage", 1>>
    /\ result = "ok"
    /\ IsSome(sel)
    /\ Unwrap(sel) < Len(combatants)
    /\ Row(Unwrap(sel)).done
    /\ Row(Unwrap(sel)).status = Stunned(5)
    /\ Row(Unwrap(sel)).hp.curr = 2

\* the death floor as the specification states it
C3_Floor(c) == IF c.class.kind \in {"Single", "Multi"} THEN -10 ELSE -4

\* the row index (from 1) that the command of this step hits, 0 for none
HitIndex ==
    IF Ran("damage") /\ result' = "ok" /\ IsSome(sel) THEN Unwrap(sel) + 1
    ELSE IF Ran("attack") /\ result' = "ok" /\ IsSome(sel) THEN pos + 1
    ELSE 0

\* C3: a hit on a combatant that is not Dead leaves it Dead if and only if
\* hp.current - damage <= -10 (Single, Multi) or <= -4 (Monster).
C3_DeadIffFloor ==
    [][HitIndex # 0 =>
        (combatants[HitIndex].status # Dead =>
            ((combatants'[HitIndex].status = Dead)
             <=> (combatants[HitIndex].hp.curr - cmd'[2]
                    <= C3_Floor(combatants[HitIndex]))))]_vars

\* a leveled combatant with 5 hp has taken 20 damage and is Dead
C3_Witness ==
    /\ cmd = <<"damage", 20>>
    /\ result = "ok"
    /\ IsSome(sel)
    /\ Unwrap(sel) < Len(combatants)
    /\ Row(Unwrap(sel)).done
    /\ Row(Unwrap(sel)).class.kind = "Single"
    /\ Row(Unwrap(sel)).hp.curr = -15
    /\ Row(Unwrap(sel)).recvd = 20
    /\ Row(Unwrap(sel)).status = Dead

\* the rows Battle::sort is given by the command of this step
SortInput ==
    IF Ran("add")
    THEN Append(combatants,
                CHOOSE r \in {combatants'[j] : j \in 1..Len(combatants')} :
                    \A i \in 1..Len(combatants) : combatants[i].uid # r.uid)
    ELSE combatants

\* C4: sort() (run by add and by advance round) removes a row if and only
\* if it is a Done row that is Dead, whether or not its initiative is set.
C4_SortRemovesExactlyDead ==
    [][(Ran("add") \/ Ran("advance")) =>
        /\ \A j \in 1..Len(combatants') :
            ~(combatants'[j].done /\ combatants'[j].status = Dead)
        /\ \A i \in 1..Len(combatants) :
            (~combatants[i].done \/ combatants[i].status # Dead)
            => \E j \in 1..Len(combatants') : combatants'[j].uid = combatants[i].uid]_vars

\* the effective initiative as the specification states it (modifier 12)
C5_EffInit(c) ==
    IF c.status.tag = 0 THEN Unwrap(c.init) + 24
    ELSE IF c.status.tag = 1 THEN Unwrap(c.init) + 12 - c.status.n
    ELSE 0

\* rows of the same kind of key: two Building rows, two Done rows without
\* an initiative, or two Done rows with the same effective initiative
C5_HasInit(r) == r.done /\ IsSome(r.init)

C5_SameKey(a, b) ==
    IF C5_HasInit(a) /\ C5_HasInit(b) THEN C5_EffInit(a) = C5_EffInit(b)
    ELSE IF a.done /\ b.done THEN ~C5_HasInit(a) /\ ~C5_HasInit(b)
    ELSE ~a.done /\ ~b.done

\* where the row with this identity stood in the rows given to sort()
C5_InputIndex(u) == CHOOSE i \in 1..Len(SortInput) : SortInput[i].uid = u

\* C5: after sort() (run by add and by advance round) the rows that have an
\* initiative stand in descending order of the effective initiative they had
\* when sort() ran, and rows with equal keys keep their earlier order.
C5_SortedStable ==
    [][(Ran("add") \/ Ran("advance")) =>
        \A j \in 1..Len(combatants') : \A k \in 1..Len(combatants') :
            j < k =>
                LET a == SortInput[C5_InputIndex(combatants'[j].uid)]
                    b == SortInput[C5_InputIndex(combatants'[k].uid)]
                IN  /\ (C5_HasInit(a) /\ C5_HasInit(b)) => C5_EffInit(a) >= C5_EffInit(b)
                    /\ C5_SameKey(a, b) =>
                         C5_InputIndex(a.uid) < C5_InputIndex(b.uid)]_vars

\* a roster <<base 10, base 15, copy of the base 10 row>> has been sorted:
\* the base 15 row leads, the base 10 row and its copy keep their order
C5_Witness ==
    /\ cmd[1] = "advance"
    /\ Len(combatants) = 3
    /\ \A i \in 1..3 : combatants[i].done
    /\ combatants[1].init = Some(15)
    /\ combatants[2].init = Some(10)
    /\ combatants[3].init = Some(10)
    /\ combatants[2].uid = 1
    /\ combatants[3].uid = 3

\* sorted, pruned order: no Dead combatant, keys in descending order
C6_SortedPruned(rows) ==
    /\ \A j \in 1..Len(rows) : ~(rows[j].done /\ rows[j].status = Dead)
    /\ \A j \in 1..Len(rows) : \A k \in 1..Len(rows) :
        (j < k /\ C5_HasInit(rows[j]) /\ C5_HasInit(rows[k]))
        => C5_EffInit(rows[j]) >= C5_EffInit(rows[k])

\* C6: right after a command that appends a row (add, duplicate) the roster
\* is in sorted, pruned order and the cursor is at 0.
C6_SortAfterEveryAddition ==
    [][(Ran("add") \/ (Ran("copy") /\ Len(combatants') = Len(combatants) + 1)) =>
        (pos' = 0 /\ C6_SortedPruned(combatants'))]_vars

\* the selected row of the state before the step is a Building row
SelBuilding ==
    /\ IsSome(sel)
    /\ Unwrap(sel) < Len(combatants)
    /\ ~Row(Unwrap(sel)).done

\* the selected row of the state before the step is a Done row
SelDone ==
    /\ IsSome(sel)
    /\ Unwrap(sel) < Len(combatants)
    /\ Row(Unwrap(sel)).done

\* C7: damage and heal on a selected Building row fail with NotBuilt, and
\* with no selection succeed; both leave rows, round, cursor and selection
\* as they were.
C7_DamageHealNotBuilt ==
    [][(Ran("damage") \/ Ran("heal")) =>
        /\ SelBuilding => (result' = "NotBuilt" /\ RosterUnchanged)
        /\ sel = None => (result' = "ok" /\ RosterUnchanged)]_vars

\* a heal has been refused on a selected Building row
C7_Witness ==
    /\ cmd[1] = "heal"
    /\ result = "NotBuilt"
    /\ IsSome(sel)
    /\ Unwrap(sel) < Len(combatants)
    /\ ~Row(Unwrap(sel)).done

\* C8: an attack whose attacker (selected row) or target (row under the
\* cursor) is a Building row fails with NotBuilt and changes nothing.
C8_AttackNotBuilt ==
    [][(/\ Ran("attack")
        /\ IsSome(sel)
        /\ Unwrap(sel) < Len(combatants)
        /\ pos < Len(combatants)
        /\ (~Row(Unwrap(sel)).done \/ ~Row(pos).done)) =>
        (result' = "NotBuilt" /\ RosterUnchanged)]_vars

\* C9: an attack by a Done attacker that has a team and an initiative and
\* whose attacks Meter stands at 0 fails with NotEnoughAttacks and changes
\* nothing.
C9_NotEnoughAttacks ==
    [][(/\ Ran("attack")
        /\ SelDone
        /\ IsSome(Row(Unwrap(sel)).team)
        /\ IsSome(Row(Unwrap(sel)).init)
        /\ Row(Unwrap(sel)).attacks.curr = 0) =>
        (result' = "NotEnoughAttacks" /\ RosterUnchanged)]_vars

\* an attack has been refused for lack of attacks, with a Done target
\* other than the attacker under the cursor
C9_Witness ==
    /\ cmd[1] = "attack"
    /\ result = "NotEnoughAttacks"
    /\ IsSome(sel)
    /\ pos < Len(combatants)
    /\ pos # Unwrap(sel)
    /\ Row(pos).done
    /\ Row(Unwrap(sel)).attacks.curr = 0

\* C10: an attack by a Done attacker without a team or without an
\* initiative fails with NotInCombat, whatever its attacks Meter holds, and
\* changes nothing.
C10_NotInCombat ==
    [][(/\ Ran("attack")
        /\ SelDone
        /\ (Row(Unwrap(sel)).team = None \/ Row(Unwrap(sel)).init = None)) =>
        (result' = "NotInCombat" /\ RosterUnchanged)]_vars

\* an attack by a combatant with no initiative and no attacks left has been
\* refused as NotInCombat
C10_Witness ==
    /\ cmd[1] = "attack"
    /\ result = "NotInCombat"
    /\ IsSome(sel)
    /\ Row(Unwrap(sel)).init = None
    /\ Row(Unwrap(sel)).attacks.curr = 0
    /\ pos < Len(combatants)
    /\ Row(pos).done

\* C11: the attacks Meter of a combatant never wraps: over every sequence
\* of commands (attack, damage, heal, advance round, attacks setting, ...)
\* each decrease takes off no more than the current value, so the current
\* attacks of every built combatant stay at or above 0.
C11_AttacksNeverNegative ==
    \A i \in 1..Len(combatants) :
        combatants[i].done => combatants[i].attacks.curr >= 0

\* a stun of 5 rounds fell on a combatant that had 2 attacks left
C11_Witness ==
    /\ cmd[1] \in {"damage", "attack"}
    /\ \E i \in 1..Len(combatants) :
        /\ combatants[i].done
        /\ combatants[i].status = Stunned(5)
        /\ combatants[i].attacks = Meter(0, 2)

\* C12: Combatant::update (one combatant's round tick) adds 1 to its round,
\* turns Stunned(n) into Healthy and leaves Healthy and Dead as they are,
\* and leaves the current attacks equal to the maximum whatever they were.
C12_UpdateTick ==
    call[1] = "update" =>
        LET c == call[2]
        IN  /\ ret.round = c.round + 1
            /\ ret.status = (IF c.status.tag = 1 THEN Healthy ELSE c.status)
            /\ ret.attacks.curr = c.attacks.max
            /\ ret.attacks.max = c.attacks.max

\* a combatant stunned for 3 rounds, out of attacks, was ticked
C12_Witness ==
    /\ call[1] = "update"
    /\ call[2].status = Stunned(3)
    /\ call[2].attacks = Meter(0, 2)
    /\ ret.status = Healthy
    /\ ret.attacks = Meter(2, 2)

\* the row of the state before the step that has this identity
C13_Before(u) == combatants[CHOOSE i \in 1..Len(combatants) : combatants[i].uid = u]

\* one combatant's round tick, as the rule states it
C13_Ticked(c) ==
    [c EXCEPT !.round = @ + 1,
              !.status = IF @.tag = 1 THEN Healthy ELSE @,
              !.attacks = Meter(c.attacks.max, c.attacks.max)]

\* C13: advance round (x) adds exactly 1 to the roster round, then sorts,
\* then ticks every Done row that is left; so the rows stand in the order of
\* the effective initiative they had before the tick (a Stunned(x) row at
\* base + 12 - x), and a combatant that was Dead when the round advanced is
\* pruned.
C13_AdvanceRound ==
    [][Ran("advance") =>
        /\ round' = round + 1
        /\ \A j \in 1..Len(combatants') :
            LET a == C13_Before(combatants'[j].uid)
            IN  combatants'[j] = (IF a.done THEN C13_Ticked(a) ELSE a)
        /\ \A j \in 1..Len(combatants') : \A k \in 1..Len(combatants') :
            LET a == C13_Before(combatants'[j].uid)
                b == C13_Before(combatants'[k].uid)
            IN  (j < k /\ C5_HasInit(a) /\ C5_HasInit(b))
                    => C5_EffInit(a) >= C5_EffInit(b)
        /\ \A i \in 1..Len(combatants) :
            (combatants[i].done /\ combatants[i].status = Dead)
                => (\A j \in 1..Len(combatants') :
                        combatants'[j].uid # combatants[i].uid)]_vars

\* C14: with the base initiative set, the effective initiative is base + 24
\* for Healthy, base + 12 - x for Stunned(x) and 0 for Dead, so it is
\* non-positive exactly when the combatant is Dead; with the base unset
\* there is no value.
C14_EffectiveInitiative ==
    call[1] = "get_init" =>
        LET c == call[2]
        IN  IF IsSome(c.init)
            THEN /\ ret = Some(IF c.status = Healthy THEN Unwrap(c.init) + 24
                               ELSE IF c.status.tag = 1
                                    THEN Unwrap(c.init) + 12 - c.status.n
                                    ELSE 0)
                 /\ (Unwrap(ret) <= 0) <=> (c.status = Dead)
            ELSE ret = None

\* the lowest key of a living combatant: base 0, stunned for 8 rounds
C14_Witness ==
    /\ call[1] = "get_init"
    /\ call[2].init = Some(0)
    /\ call[2].status = Stunned(8)
    /\ ret = Some(4)

\* C15: stun_lock(10, 10) is Stunned(8): a hit whose damage equals the
\* current hp of 10 passes the first threshold check, 10 * 7 >= 10 * 6.
C15_StunLockTenTen ==
    (call[1] = "stun_lock" /\ call[2] = 10 /\ call[3] = 10) => ret = Stunned(8)

\* stun_lock has been applied to damage 10 against hp 10
C15_Witness ==
    /\ call[1] = "stun_lock"
    /\ call[2] = 10
    /\ call[3] = 10
    /\ ret.tag = 1

\* C15 as stated: stun_lock(10, 10) is Stunned(3), the first four threshold
\* checks failing and damage * 2 >= hp succeeding.
C15_StunLockTenTenIsThree ==
    (call[1] = "stun_lock" /\ call[2] = 10 /\ call[3] = 10) => ret = Stunned(3)

\* C16: the XP of a combatant is dealt * 10 + received * 20 + team bonus
\* (the bonus factor does not apply); with 100 dealt, 50 received and a
\* team bonus of 20 it is 2020.
C16_XpFormula ==
    call[1] = "xp" =>
        /\ ret = call[2].dealt * 10 + call[2].recvd * 20 + call[3]
        /\ (call[2].dealt = 100 /\ call[2].recvd = 50 /\ call[3] = 20) => ret = 2020

\* xp has been computed for 100 dealt, 50 received, team bonus 20
C16_Witness ==
    /\ call[1] = "xp"
    /\ call[2].dealt = 100
    /\ call[2].recvd = 50
    /\ call[3] = 20
    /\ ret = 2020

\* the Done rows on the team of the selected row, the selected row included
C17_Team ==
    {i \in 1..Len(combatants) :
        combatants[i].done /\ combatants[i].team = Row(Unwrap(sel)).team}

RECURSIVE C17_TruncSum(_)
\* the sum over the rows S of dealt * 20 / n, each quotient truncated toward
\* zero, n the number of rows of the roster
C17_TruncSum(S) ==
    IF S = {} THEN 0
    ELSE LET i == CHOOSE j \in S : TRUE
             pool == combatants[i].dealt * 20
             n == Len(combatants)
         IN  (IF pool >= 0 THEN pool \div n ELSE -((-pool) \div n))
             + C17_TruncSum(S \ {i})

RECURSIVE C17_FloorSum(_)
\* the same sum with each quotient rounded down
C17_FloorSum(S) ==
    IF S = {} THEN 0
    ELSE LET i == CHOOSE j \in S : TRUE
         IN  ((combatants[i].dealt * 20) \div Len(combatants))
             + C17_FloorSum(S \ {i})

\* the XP command has returned a value for the selected row
C17_XpReturned == cmd[1] = "xp" /\ result = "ok" /\ IsSome(ret)

\* C17: the XP computed for a selected Done row uses as team bonus the sum,
\* over every Done row on the selected row's team (itself included), of
\* (dealt * 20) / n with the quotient truncated toward zero, n being the
\* number of all rows of the roster, Building rows included.
C17_TeamBonusTruncated ==
    C17_XpReturned =>
        Unwrap(ret) = Row(Unwrap(sel)).dealt * 10 + Row(Unwrap(sel)).recvd * 20
                        + C17_TruncSum(C17_Team)

\* the XP of a combatant that dealt 9 was computed in a roster of three rows,
\* one of them Building: its share of the pool is 180 / 3
C17_Witness ==
    /\ C17_XpReturned
    /\ Len(combatants) = 3
    /\ \E i \in 1..3 : ~combatants[i].done
    /\ Row(Unwrap(sel)).dealt = 9
    /\ C17_Team = {Unwrap(sel) + 1}
    /\ Unwrap(ret) = 90 + Row(Unwrap(sel)).recvd * 20 + 60

\* C17 as stated: the quotient of every member is floor((dealt * 20) / n).
C17_TeamBonusFloored ==
    C17_XpReturned =>
        Unwrap(ret) = Row(Unwrap(sel)).dealt * 10 + Row(Unwrap(sel)).recvd * 20
                        + C17_FloorSum(C17_Team)

\* C18: the XP command (z) issued with no row selected, or with a Building
\* row selected, is a no-op: no XP value comes out, the program does not
\* fail or abort, and the roster is left as it was.
C18_XpWithoutCombatantIsNoOp ==
    [][(Ran("xp") /\ (~IsSome(sel) \/ SelBuilding)) =>
        /\ result' = "ok"
        /\ ret' = None
        /\ RosterUnchanged]_vars

\* C19: adding delta to a Meter sets the current value to
\* min(maximum, current + delta), so the current value that results never
\* exceeds the maximum, and the maximum is left as it was.
C19_MeterAddCapped ==
    call[1] = "add" =>
        LET m == call[2]
            delta == call[3]
        IN  /\ ret.curr = (IF m.curr + delta <= m.max THEN m.curr + delta ELSE m.max)
            /\ ret.curr <= m.max
            /\ ret.max = m.max

\* 3 was added to a Meter at 2 of 3: it stands at 3 of 3
C19_Witness ==
    /\ call[1] = "add"
    /\ call[2] = Meter(2, 3)
    /\ call[3] = 3
    /\ ret = Meter(3, 3)

\* the text is two integers with exactly one '/' between them
C20_TwoIntegers(s) ==
    \E k \in 2..Len(s) - 1 :
        /\ s[k] = "/"
        /\ \A i \in 1..Len(s) : i # k => s[i] \in {"1", "2"}

\* C20: parsing a Meter gives a ParseError (an error value, not an abort)
\* for every text that is not two integers separated by a single '/': a
\* text without '/' (one field) and a text of three or more fields included.
C20_ParseErrorUnlessTwoIntegers ==
    (call[1] = "from_str" /\ ~C20_TwoIntegers(call[2])) => ret.tag = "Err"

\* the operator has supplied all seven fields of this row: the armor rating
\* at the prompt of the n command that added it (the one command that asks
\* for it), the class, the hit dice / level, the hp, the attacks, the team
\* and the base initiative through the commands C, D, H, A and i
C21_AllSupplied(r) ==
    /\ IsSome(r.class)
    /\ IsSome(r.hd)
    /\ IsSome(r.hp)
    /\ IsSome(r.attacks)
    /\ IsSome(r.team)
    /\ IsSome(r.init)

\* C21: a row added to the roster starts as Building and stays Building
\* while one of its fields is unset; once all seven have been supplied the
\* row is Done, so no Building row has all of them.
C21_BuiltOnceAllSupplied ==
    \A i \in 1..Len(combatants) :
        ~combatants[i].done => ~C21_AllSupplied(combatants[i])

\* C22: the rating of a Multi descriptor with member classes C1..Cn at level
\* L is the least of the ratings of Single{Ci, L}, and the rating of a
\* Monster descriptor with hit dice H is the rating of a Single fighter at
\* level H.
C22_MultiAndMonsterRating ==
    call[1] = "thac0" =>
        LET cl == call[2]
        IN  /\ (cl.kind = "Multi" /\ cl.name # << >>) =>
                /\ \A i \in 1..Len(cl.name) : ret <= thac0(Single(cl.name[i], cl.lvl))
                /\ \E i \in 1..Len(cl.name) : ret = thac0(Single(cl.name[i], cl.lvl))
            /\ cl.kind = "Monster" => ret = thac0(Single("Fighter", cl.lvl))

\* a mage / fighter at level 5 has been rated: 16, the fighter's rating
C22_Witness ==
    /\ call[1] = "thac0"
    /\ call[2] = Multi(<<"Mage", "Fighter">>, 5)
    /\ ret = 16

\* the table entry the clamped level selects
C23_Clamp(n) == IF n < 1 THEN 1 ELSE IF n > 13 THEN 13 ELSE n

\* the rating read from the tables at entry k (1..13)
C23_At(cl, k) ==
    IF cl.kind = "Monster" THEN FIGHTER_THAC0[k]
    ELSE IF cl.kind = "Single" THEN class_table(cl.name[1])[k]
    ELSE IF cl.name = << >> THEN 20
    ELSE LET rs == {class_table(cl.name[i])[k] : i \in 1..Len(cl.name)}
         IN  CHOOSE r \in rs : \A q \in rs : r <= q

\* C23: the rating lookup clamps the level to 1..13: for every class group
\* the rating at level 0 is the rating at level 1, the rating at a level
\* above 13 is the rating at level 13, and every level reads an entry inside
\* the table.
C23_LevelClamped ==
    call[1] = "thac0" =>
        /\ thac0_idx(call[2].lvl) \in 1..13
        /\ ret = C23_At(call[2], C23_Clamp(call[2].lvl))

\* a thief at level 15 has been rated as a thief at level 13
C23_Witness ==
    /\ call[1] = "thac0"
    /\ call[2] = Single("Thief", 15)
    /\ ret = 15

\* C24: the attack rating of a Done combatant is fixed when it is created:
\* a new class descriptor (C) or a new level / hit dice (D) set on a Done row
\* changes the descriptor of the row under the cursor and leaves its stored
\* rating, hp, attacks, Status and counters, and every other row, as they
\* were.
C24_RatingFixedAtCreation ==
    [][(Ran("class") \/ Ran("hd")) =>
        /\ Len(combatants') = Len(combatants)
        /\ \A i \in 1..Len(combatants) :
            combatants[i].done =>
                /\ combatants'[i] = [combatants[i] EXCEPT !.class = combatants'[i].class]
                /\ combatants'[i].class # combatants[i].class => i = pos + 1
                /\ (i = pos + 1 /\ Ran("class")) => combatants'[i].class \in ClassInputs
                /\ (i = pos + 1 /\ Ran("hd")) =>
                        \E hd \in Hds : combatants'[i].class = [combatants[i].class EXCEPT !.lvl = hd]
       ]_vars

\* a mage rated 21 has been given the class fighter / mage, whose rating
\* would be 20, and is still rated 21
C24_Witness ==
    /\ cmd[1] = "class"
    /\ \E i \in 1..Len(combatants) :
        /\ combatants[i].done
        /\ combatants[i].class \in ClassInputs
        /\ combatants[i].thac0 = 21
        /\ thac0(combatants[i].class) = 20

\* C25: every Stunned status a combatant holds has a severity in 1..8:
\* stun_lock returns only Healthy or Stunned(n) with 1 <= n <= 8, whatever
\* the damage and the hp (negative ones included), and never Dead.
C25_StunSeverityInRange ==
    /\ \A i \in 1..Len(combatants) :
        (combatants[i].done /\ combatants[i].status.tag = 1)
            => combatants[i].status.n \in 1..8
    /\ call[1] = "stun_lock" =>
        \/ ret = Healthy
        \/ ret.tag = 1 /\ ret.n \in 1..8

\* stun_lock has returned the highest severity for a negative hp
C25_Witness ==
    /\ call[1] = "stun_lock"
    /\ call[2] = 0
    /\ call[3] = -1
    /\ ret = Stunned(8)

\* the highest k in 2..7 whose check damage * k >= hp * (k - 1) holds, the
\* first that holds when they are tried from 7 down to 2; 0 if none holds
C26_FirstK(dam, hp) ==
    LET ks == {k \in 2..7 : dam * k >= hp * (k - 1)}
    IN  IF ks = {} THEN 0 ELSE CHOOSE k \in ks : \A q \in ks : q <= k

\* the two lower checks
C26_Low(dam, hp) ==
    IF dam * 3 >= hp THEN Stunned(2)
    ELSE IF dam * 4 >= hp THEN Stunned(1)
    ELSE Healthy

\* C26: stun_lock tries damage * k >= hp * (k - 1) for k = 7 down to 2, the
\* first check that holds yielding Stunned(k + 1); then damage * 3 >= hp
\* yields Stunned(2), then damage * 4 >= hp yields Stunned(1), and the
\* result is Healthy if none holds.
C26_Ladder ==
    call[1] = "stun_lock" =>
        LET k == C26_FirstK(call[2], call[3])
        IN  ret = (IF k # 0 THEN Stunned(k + 1) ELSE C26_Low(call[2], call[3]))

\* damage 7 against hp 10: the checks for k = 7..4 fail, k = 3 holds
C26_Witness ==
    /\ call[1] = "stun_lock"
    /\ call[2] = 7
    /\ call[3] = 10
    /\ C26_FirstK(7, 10) = 3
    /\ ret = Stunned(4)

\* C26 as stated: the first check that holds, for k, yields Stunned(9 - k).
C26_LadderNineMinusK ==
    call[1] = "stun_lock" =>
        LET k == C26_FirstK(call[2], call[3])
        IN  ret = (IF k # 0 THEN Stunned(9 - k) ELSE C26_Low(call[2], call[3]))

\* the hit takes the combatant to Dead
C27_Dies(c, dam) == c.status # Dead /\ c.hp.curr - dam <= C3_Floor(c)

\* the hit makes the combatant adopt a new, strictly greater Stunned status
C27_Adopts(c, dam) ==
    /\ c.status # Dead
    /\ ~C27_Dies(c, dam)
    /\ stun_lock(dam, c.hp.curr).tag = 1
    /\ StatusRank(stun_lock(dam, c.hp.curr)) > StatusRank(c.status)

\* C27: when recv_hit adopts a new, strictly greater Stunned(x) it takes
\* exactly min(x, attacks.current) off the current attacks; in every other
\* case (status retained, transition to Dead, already Dead) it leaves the
\* attacks Meter as it was.
C27_StunConsumesAttacks ==
    call[1] = "recv_hit" =>
        LET c == call[2]
            x == stun_lock(call[3], c.hp.curr).n
        IN  IF C27_Adopts(c, call[3])
            THEN /\ ret.status = Stunned(x)
                 /\ ret.attacks.curr
                        = c.attacks.curr - (IF x <= c.attacks.curr THEN x ELSE c.attacks.curr)
                 /\ ret.attacks.max = c.attacks.max
            ELSE ret.attacks = c.attacks

\* a Stunned(1) combatant with 3 attacks at 10 hp took 4: Stunned(2) is
\* adopted and 2 attacks are gone
C27_Witness ==
    /\ call[1] = "recv_hit"
    /\ call[2].status = Stunned(1)
    /\ call[2].hp.curr = 10
    /\ call[2].attacks.curr = 3
    /\ call[3] = 4
    /\ ret.status = Stunned(2)
    /\ ret.attacks.curr = 1

\* C28: recv_hit always adds exactly the damage to the received counter and
\* takes exactly the damage off the current hp, without a floor, whatever
\* the Status before or after (a Dead combatant included), and leaves the
\* hp maximum, the dealt counter, the team and the base initiative alone.
C28_HitAlwaysCounted ==
    call[1] = "recv_hit" =>
        LET c == call[2]
        IN  /\ ret.recvd = c.recvd + call[3]
            /\ ret.hp.curr = c.hp.curr - call[3]
            /\ ret.hp.max = c.hp.max
            /\ ret.dealt = c.dealt
            /\ ret.team = c.team
            /\ ret.init = c.init

\* a Dead combatant at -10 hp took 10 more: -20 hp, 10 received
C28_Witness ==
    /\ call[1] = "recv_hit"
    /\ call[2].status = Dead
    /\ call[2].hp.curr = -10
    /\ call[3] = 10
    /\ ret.status = Dead
    /\ ret.hp.curr = -20
    /\ ret.recvd = 10

\* C29: the selection is always valid: after every sequence of commands it
\* is unset or an index below the number of rows, so damage, heal, attack,
\* duplicate and the XP command never address a row that does not exist.
C29_SelectionValid ==
    IsSome(sel) => Unwrap(sel) < Len(combatants)

\* C30: the selection keeps identifying the same combatant across a
\* re-sort: when a row is selected and a command re-sorts the roster (add a
\* row, advance round) without removing that row, the selection afterwards
\* refers to the same combatant.
C30_SelectionFollowsCombatant ==
    [][(/\ Ran("add") \/ Ran("advance")
        /\ IsSome(sel)
        /\ Unwrap(sel) < Len(combatants)
        /\ \E j \in 1..Len(combatants') : combatants'[j].uid = Row(Unwrap(sel)).uid)
       => /\ IsSome(sel')
          /\ Unwrap(sel') < Len(combatants')
          /\ combatants'[Unwrap(sel') + 1].uid = Row(Unwrap(sel)).uid]_vars

\* the cursor is 0 on an empty roster and below the number of rows otherwise
C31_CursorValid ==
    IF combatants = << >> THEN pos = 0 ELSE pos < Len(combatants)

\* C31: the cursor stays valid under add, duplicate, advance round, cursor
\* up and cursor down: from a state with a valid cursor each of them leaves
\* a valid cursor; cursor down at the last row and cursor up at row 0 leave
\* it where it is, and the commands that sort (add, advance round) leave it
\* at 0.
C31_CursorStaysValid ==
    [][(/\ C31_CursorValid
        /\ Ran("add") \/ Ran("copy") \/ Ran("advance") \/ Ran("up") \/ Ran("down"))
       => /\ C31_CursorValid'
          /\ (Ran("down") /\ pos + 1 >= Len(combatants)) => pos' = pos
          /\ (Ran("down") /\ pos + 1 < Len(combatants)) => pos' = pos + 1
          /\ (Ran("up") /\ pos = 0) => pos' = pos
          /\ (Ran("up") /\ pos > 0) => pos' = pos - 1
          /\ (Ran("add") \/ Ran("advance")) => pos' = 0]_vars

\* cursor down was pressed on a roster of one row: the cursor is still on it
C31_Witness ==
    /\ cmd[1] = "down"
    /\ Len(combatants) = 1
    /\ pos = 0

\* C32: health stays within its maximum: every combatant, created with
\* hp.current <= hp.maximum, has hp.current <= hp.maximum after every
\* sequence of hits and heals of any amount the operator can enter, zero
\* and negative amounts included.
C32_HpWithinMax ==
    \A i \in 1..Len(combatants) :
        combatants[i].done => combatants[i].hp.curr <= combatants[i].hp.max

\* the last key was a Normal-mode command that failed with a parse error
\* or a combat-rule error
C33_Failed == result \in {"ParseError", "NotBuilt", "NotEnoughAttacks", "NotInCombat"}

\* C33: a failed command leaves no stale input behind: after a Normal-mode
\* command fails with a parse error or a combat-rule error, no message is
\* left collected and the mode is Normal, so the next damage, heal or
\* attack command asks for a fresh amount.
C33_NoStaleInput ==
    C33_Failed => (messages = NoMessages /\ mode = Normal)

==============================================================================
